---- MODULE Spec2Model ----
(***************************************************************************)
(* A model of genricLRU.py: the LRUCache store (an OrderedDict whose order *)
(* is the recency order, least-recently-used first) and the two memoizing  *)
(* wrappers cached and async_cached built on it.                           *)
(***************************************************************************)
EXTENDS Integers, Sequences, FiniteSets, TLC

(* ---- bounds of the model ---- *)
NonPositiveCapacities == 1
MaxCapacity == 2
MaxArg == 3
MaxPutValue == 1
MaxTasks == 2

(* Python's None; no computed or stored integer of the model equals it. *)
None == -1

VARIABLES capacity, cache, pending, last, puts, run, origin

vars == <<capacity, cache, pending, last, puts, run, origin>>

(* ---- inputs ---- *)
(* the capacities a store is constructed with, from -NonPositiveCapacities up *)
CapacityInputs == (0 - NonPositiveCapacities)..MaxCapacity

(* One call of a wrapped function: its positional arguments, and its keyword
   arguments as (name, value) pairs in the order the caller wrote them. *)
CallInputs == {[args |-> <<x>>, kwargs |-> <<>>] : x \in 1..MaxArg}

Range(s) == {s[i] : i \in DOMAIN s}

(* A list object as an argument value: it has no hash. Every other value of
   the model is an integer, which has one. *)
AList == -2

Hashable(v) == v # AList

(* hash(key) succeeds: frozenset hashes the keyword values when the key is
   built, the lookup in the OrderedDict hashes the positional ones *)
KeyHashable(call) ==
    /\ \A i \in DOMAIN call.kwargs : Hashable(call.kwargs[i][2])
    /\ \A i \in DOMAIN call.args : Hashable(call.args[i])

(* a key that keeps the keyword arguments in the order of the call *)
MakeKey_ordered(call) == <<call.args, call.kwargs>>

(* key = (args, frozenset(kwargs.items())) *)
MakeKey(call) == <<call.args, Range(call.kwargs)>>

KeyInputs == {MakeKey(call) : call \in CallInputs}

ValueInputs == {None} \cup (1..MaxPutValue)

(* ---- the OrderedDict ---- *)
Keys(c) == {c[i].key : i \in DOMAIN c}

IndexOf(c, key) == CHOOSE i \in DOMAIN c : c[i].key = key

(* self.cache[key] *)
getitem(c, key) == c[IndexOf(c, key)].value

(* move_to_end with last=False: the entry goes to the front *)
move_to_front(c, key) ==
    LET i == IndexOf(c, key)
    IN  <<c[i]>> \o SubSeq(c, 1, i - 1) \o SubSeq(c, i + 1, Len(c))

(* self.cache.move_to_end(key) *)
move_to_end(c, key) ==
    LET i == IndexOf(c, key)
    IN  SubSeq(c, 1, i - 1) \o SubSeq(c, i + 1, Len(c)) \o <<c[i]>>

(* self.cache[key] = value: an existing key keeps its position *)
setitem(c, key, value) ==
    IF key \in Keys(c)
    THEN [c EXCEPT ![IndexOf(c, key)].value = value]
    ELSE Append(c, [key |-> key, value |-> value])

(* popitem with last=True: the most-recently-used entry goes *)
popitem_last(c) == SubSeq(c, 1, Len(c) - 1)

(* self.cache.popitem(last=False) *)
popitem_first(c) == Tail(c)

(* ---- LRUCache ---- *)
(* Every method is given as the pair of the cache it leaves and the value it
   returns. *)

(* a presence check that also refreshes the entry *)
contains_touch(c, key) ==
    [cache |-> IF key \in Keys(c) THEN move_to_end(c, key) ELSE c,
     ret |-> key \in Keys(c)]

(* LRUCache.__contains__ *)
contains(c, key) == [cache |-> c, ret |-> key \in Keys(c)]

(* LRUCache.__len__ *)
len(c) == [cache |-> c, ret |-> Len(c)]

(* a get that forgets move_to_end *)
get_no_move(c, key) ==
    IF key \notin Keys(c)
    THEN [cache |-> c, ret |-> None]
    ELSE [cache |-> c, ret |-> getitem(c, key)]

(* LRUCache.get *)
get(c, key) ==
    IF key \notin Keys(c)
    THEN [cache |-> c, ret |-> None]
    ELSE LET c1 == move_to_end(c, key)
         IN  [cache |-> c1, ret |-> getitem(c1, key)]

(* a put that forgets the eviction *)
put_no_evict(c, cap, key, value) ==
    LET c1 == IF key \in Keys(c) THEN move_to_end(c, key) ELSE c
    IN  setitem(c1, key, value)

(* a put that makes room in a full store before it looks at the key *)
put_evict_before_insert(c, cap, key, value) ==
    LET c1 == IF key \in Keys(c) THEN move_to_end(c, key) ELSE c
        c2 == IF Len(c1) >= cap /\ c1 # <<>> THEN popitem_first(c1) ELSE c1
    IN  setitem(c2, key, value)

(* LRUCache.put *)
put(c, cap, key, value) ==
    LET c1 == IF key \in Keys(c) THEN move_to_end(c, key) ELSE c
        c2 == setitem(c1, key, value)
    IN  IF Len(c2) > cap THEN popitem_first(c2) ELSE c2

(* ---- the wrapped computation ---- *)
(* return x * x *)
func(call) == call.args[1] * call.args[1]

(* A call of the wrapped function returns its value, returns None (a callable
   with no return value), or raises. *)
Outcomes == {"return", "none", "raise"}

(* the result of the call of func, when it returns *)
returned(call, outcome) == IF outcome = "none" THEN None ELSE func(call)

(* ---- cached(cache)(func): the synchronous wrapper ---- *)
(* a wrapper that catches the exception and stores None for the key *)
wrapper_caches_failure(c, cap, call, outcome) ==
    LET key == MakeKey(call)
        probe == contains(c, key)
    IN  IF probe.ret
        THEN LET g == get(probe.cache, key)
             IN  [cache |-> g.cache, ret |-> g.ret,
                  invoked |-> FALSE, raised |-> FALSE]
        ELSE LET result == IF outcome = "raise" THEN None
                           ELSE returned(call, outcome)
             IN  [cache |-> put(probe.cache, cap, key, result),
                  ret |-> result, invoked |-> TRUE,
                  raised |-> (outcome = "raise")]

(* a wrapper that takes a None from cache.get for a miss *)
wrapper_none_is_miss(c, cap, call, outcome) ==
    LET key == MakeKey(call)
        g == get(c, key)
    IN  IF g.ret # None
        THEN [cache |-> g.cache, ret |-> g.ret,
              invoked |-> FALSE, raised |-> FALSE]
        ELSE IF outcome = "raise"
             THEN [cache |-> g.cache, ret |-> None,
                   invoked |-> TRUE, raised |-> TRUE]
             ELSE LET result == returned(call, outcome)
                  IN  [cache |-> put(g.cache, cap, key, result),
                       ret |-> result, invoked |-> TRUE, raised |-> FALSE]

(* a wrapper that calls func first and looks at the key afterwards *)
wrapper_calls_first(c, cap, call, outcome) ==
    LET key == MakeKey(call)
        probe == contains(c, key)
    IN  IF ~KeyHashable(call)
        THEN [cache |-> c, ret |-> None,
              invoked |-> TRUE, raised |-> TRUE]
        ELSE IF probe.ret
        THEN LET g == get(probe.cache, key)
             IN  [cache |-> g.cache, ret |-> g.ret,
                  invoked |-> FALSE, raised |-> FALSE]
        ELSE IF outcome = "raise"
             THEN [cache |-> probe.cache, ret |-> None,
                   invoked |-> TRUE, raised |-> TRUE]
             ELSE LET result == returned(call, outcome)
                  IN  [cache |-> put(probe.cache, cap, key, result),
                       ret |-> result, invoked |-> TRUE, raised |-> FALSE]

(* An unhashable argument ends the call in a TypeError at lines 39-40, before
   func is called. *)
wrapper(c, cap, call, outcome) ==
    LET key == MakeKey(call)
        probe == contains(c, key)
    IN  IF ~KeyHashable(call)
        THEN [cache |-> c, ret |-> None,
              invoked |-> FALSE, raised |-> TRUE]
        ELSE IF probe.ret
        THEN LET g == get(probe.cache, key)
             IN  [cache |-> g.cache, ret |-> g.ret,
                  invoked |-> FALSE, raised |-> FALSE]
        ELSE IF outcome = "raise"
             THEN [cache |-> probe.cache, ret |-> None,
                   invoked |-> TRUE, raised |-> TRUE]
             ELSE LET result == returned(call, outcome)
                  IN  [cache |-> put(probe.cache, cap, key, result),
                       ret |-> result, invoked |-> TRUE, raised |-> FALSE]

(* ---- async_cached(cache)(func): the asynchronous wrapper ---- *)
(* a start that yields between the presence check and the read, so that the
   least-recently-used entry can be gone when it reads *)
async_wrapper_start_yields(c, call) ==
    LET key == MakeKey(call)
        probe == contains(c, key)
    IN  IF probe.ret
        THEN LET g == get(popitem_first(probe.cache), key)
             IN  [cache |-> g.cache, ret |-> g.ret, invoked |-> FALSE,
                  suspended |-> FALSE, raised |-> FALSE]
        ELSE [cache |-> probe.cache, ret |-> None, invoked |-> TRUE,
              suspended |-> TRUE, raised |-> FALSE]

(* From the call up to the await: an unhashable argument ends the call in a
   TypeError at lines 55-56, a hit returns at once, a miss starts the wrapped
   coroutine and suspends. *)
async_wrapper_start(c, call) ==
    LET key == MakeKey(call)
        probe == contains(c, key)
    IN  IF ~KeyHashable(call)
        THEN [cache |-> c, ret |-> None, invoked |-> FALSE,
              suspended |-> FALSE, raised |-> TRUE]
        ELSE IF probe.ret
        THEN LET g == get(probe.cache, key)
             IN  [cache |-> g.cache, ret |-> g.ret, invoked |-> FALSE,
                  suspended |-> FALSE, raised |-> FALSE]
        ELSE [cache |-> probe.cache, ret |-> None, invoked |-> TRUE,
              suspended |-> TRUE, raised |-> FALSE]

(* a resume that stores in a finally clause, whatever ended the await *)
async_wrapper_resume_always_stores(c, cap, call, outcome) ==
    LET result == IF outcome \in {"return", "none"}
                  THEN returned(call, outcome) ELSE None
    IN  [cache |-> put(c, cap, MakeKey(call), result),
         ret |-> result, raised |-> (outcome \notin {"return", "none"})]

(* From the await to the end: the awaited coroutine returned, raised, or the
   task was cancelled while it waited. *)
async_wrapper_resume(c, cap, call, outcome) ==
    IF outcome \in {"return", "none"}
    THEN LET result == returned(call, outcome)
         IN  [cache |-> put(c, cap, MakeKey(call), result),
              ret |-> result, raised |-> FALSE]
    ELSE [cache |-> c, ret |-> None, raised |-> TRUE]

(* ---- observation of the last completed step ---- *)
NoKey == <<>>

NoCall == [args |-> <<>>, kwargs |-> <<>>]

(* op: the operation; call: for a step of a wrapper, the arguments of the
   call; key, arg: its key and the value it was given; ret: the
   value it returned; found: whether the key was resident when the step
   began; invoked: whether the step called the wrapped function; failed:
   whether the wrapped function raised in the step; raised: whether the step
   ended in an exception reaching the caller; evicted: the keys resident
   before the step and not after it; after: for a put, the key that the
   operation right before it was a get hit on; for a synchronous call, the
   key of the synchronous call right before it if that call stored a None
   result (NoKey if there was none). *)
NoEvent ==
    [op |-> "init", call |-> NoCall, key |-> NoKey, arg |-> None,
     ret |-> None,
     found |-> FALSE, invoked |-> FALSE, failed |-> FALSE, raised |-> FALSE,
     evicted |-> {}, after |-> NoKey]

Event(op, key, c, c2) ==
    [NoEvent EXCEPT !.op = op, !.key = key, !.found = key \in Keys(c),
                    !.evicted = Keys(c) \ Keys(c2)]

(* the number of suspended calls of the asynchronous wrapper *)
RECURSIVE Total(_, _)
Total(p, calls) ==
    IF calls = {} THEN 0
    ELSE LET call == CHOOSE x \in calls : TRUE
         IN  p[call] + Total(p, calls \ {call})

(* The keys of the latest run of put calls on pairwise distinct keys with no
   get in between, oldest first, cut to the last n of them. *)
NextPuts(p, key, n) ==
    LET q == IF key \in Range(p)
             THEN SubSeq(p, (CHOOSE i \in DOMAIN p : p[i] = key) + 1, Len(p))
             ELSE p
        r == Append(q, key)
    IN  IF Len(r) > n THEN Tail(r) ELSE r

PutsKept == IF capacity > 0 THEN capacity + 1 ELSE 1

(* ---- history of a run of calls made one after another ---- *)
(* cache = LRUCache(capacity=3) *)
DemoCapacity == 3

(* a call in a history: the wrapped function and the arguments *)
Made(fn, call) == [fn |-> fn, call |-> call]

Positional(x) == [args |-> <<x>>, kwargs |-> <<>>]

HeavyCall(x) == Made("heavy_computation", Positional(x))

AsyncHeavyCall(x) == Made("async_heavy_computation", Positional(x))

(* the calls of the __main__ block, in order *)
DemoScript ==
    <<HeavyCall(10), HeavyCall(10), AsyncHeavyCall(5), AsyncHeavyCall(5),
      AsyncHeavyCall(6), AsyncHeavyCall(7), AsyncHeavyCall(5)>>

(* the calls f(5), f(5), f(6), f(7), f(8), f(5) of a memoized f(x) = x * x *)
ScenarioScript ==
    <<HeavyCall(5), HeavyCall(5), HeavyCall(6), HeavyCall(7), HeavyCall(8),
      HeavyCall(5)>>

Scripts == {DemoScript, ScenarioScript}

DemoArgs == {5, 6, 7, 8, 10}

IsPrefix(s, t) == Len(s) <= Len(t) /\ s = SubSeq(t, 1, Len(s))

(* on: the calls made since the store was constructed are, so far, the first
   calls of one of Scripts; trace: these calls; log: for each of them,
   whether it invoked the wrapped function. *)
NoRun == [on |-> TRUE, trace |-> <<>>, log |-> <<>>]

Follow(r, c, invoked) ==
    IF r.on /\ \E script \in Scripts : IsPrefix(Append(r.trace, c), script)
    THEN [on |-> TRUE, trace |-> Append(r.trace, c),
          log |-> Append(r.log, invoked)]
    ELSE [on |-> FALSE, trace |-> <<>>, log |-> <<>>]

(* for every resident key, the call whose result the entry is *)
Stored(o, c2, key, made, invoked) ==
    [k \in Keys(c2) |-> IF k = key /\ invoked THEN made ELSE o[k]]

(* ---- the state machine ---- *)
(* LRUCache(capacity): the generated constructor takes any integer *)
Init ==
    /\ capacity \in CapacityInputs
    /\ cache = <<>>
    /\ pending = [call \in CallInputs |-> 0]
    /\ last = NoEvent
    /\ puts = <<>>
    /\ run = NoRun
    /\ origin = <<>>

Get(key) ==
    LET g == get(cache, key)
    IN  /\ cache' = g.cache
        /\ last' = [Event("get", key, cache, g.cache) EXCEPT !.ret = g.ret]
        /\ puts' = <<>>
        /\ UNCHANGED <<capacity, pending>>

Put(key, value) ==
    LET c2 == put(cache, capacity, key, value)
    IN  /\ cache' = c2
        /\ last' = [Event("put", key, cache, c2) EXCEPT
                       !.arg = value,
                       !.after = IF last.op = "get" /\ last.found
                                 THEN last.key ELSE NoKey]
        /\ puts' = NextPuts(puts, key, PutsKept)
        /\ UNCHANGED <<capacity, pending>>

Contains(key) ==
    LET p == contains(cache, key)
    IN  /\ cache' = p.cache
        /\ last' = [Event("contains", key, cache, p.cache) EXCEPT
                       !.found = p.ret]
        /\ UNCHANGED <<capacity, pending, puts>>

Size ==
    LET n == len(cache)
    IN  /\ cache' = n.cache
        /\ last' = [Event("size", NoKey, cache, n.cache) EXCEPT
                       !.found = FALSE, !.ret = n.ret]
        /\ UNCHANGED <<capacity, pending, puts>>

(* heavy_computation(x): one call of the synchronous wrapper *)
Call(call, outcome) ==
    LET w == wrapper(cache, capacity, call, outcome)
        key == MakeKey(call)
    IN  /\ cache' = w.cache
        /\ last' = [Event("call", key, cache, w.cache) EXCEPT
                       !.call = call, !.ret = w.ret, !.invoked = w.invoked,
                       !.failed = w.invoked /\ outcome = "raise",
                       !.raised = w.raised,
                       !.after = IF /\ last.op = "call" /\ last.invoked
                                    /\ ~last.failed /\ last.ret = None
                                 THEN last.key ELSE NoKey]
        /\ puts' = IF key \in Keys(cache) THEN <<>>
                   ELSE IF outcome = "raise" THEN puts
                   ELSE NextPuts(puts, key, PutsKept)
        /\ UNCHANGED <<capacity, pending>>

(* async_heavy_computation(x): a task runs the asynchronous wrapper up to
   its await *)
AsyncCall(call) ==
    LET w == async_wrapper_start(cache, call)
        key == MakeKey(call)
    IN  /\ Total(pending, CallInputs) < MaxTasks
        /\ cache' = w.cache
        /\ pending' = IF w.suspended
                      THEN [pending EXCEPT ![call] = @ + 1]
                      ELSE pending
        /\ last' = [Event("acall", key, cache, w.cache) EXCEPT
                       !.call = call, !.ret = w.ret,
                       !.invoked = w.invoked, !.raised = w.raised]
        /\ puts' = IF key \in Keys(cache) THEN <<>> ELSE puts
        /\ UNCHANGED capacity

(* a suspended call of the asynchronous wrapper runs from its await to its
   end *)
Resume(call, op, outcome) ==
    LET key == MakeKey(call)
        w == async_wrapper_resume(cache, capacity, call, outcome)
    IN  /\ pending[call] > 0
        /\ cache' = w.cache
        /\ pending' = [pending EXCEPT ![call] = @ - 1]
        /\ last' = [Event(op, key, cache, w.cache) EXCEPT
                       !.call = call, !.ret = w.ret, !.failed = (outcome = "raise"),
                       !.raised = w.raised]
        /\ puts' = IF outcome = "return" THEN NextPuts(puts, key, PutsKept)
                   ELSE puts
        /\ UNCHANGED capacity

(* the awaited coroutine returns *)
AsyncReturn(call) == Resume(call, "areturn", "return")

(* the awaited coroutine raises *)
AsyncRaise(call) == Resume(call, "araise", "raise")

(* the task is cancelled while it waits *)
AsyncCancel(call) == Resume(call, "acancel", "cancel")

(* await async_heavy_computation(x): the asynchronous wrapper awaited to
   its end, nothing else running in between *)
awaited(c, cap, call, outcome) ==
    LET w == async_wrapper_start(c, call)
    IN  IF w.suspended
        THEN LET r == async_wrapper_resume(w.cache, cap, call, outcome)
             IN  [cache |-> r.cache, ret |-> r.ret,
                  invoked |-> TRUE, raised |-> r.raised]
        ELSE [cache |-> w.cache, ret |-> w.ret,
              invoked |-> FALSE, raised |-> w.raised]

Await(call, outcome) ==
    LET w == awaited(cache, capacity, call, outcome)
        key == MakeKey(call)
    IN  /\ cache' = w.cache
        /\ last' = [Event("await", key, cache, w.cache) EXCEPT
                       !.call = call, !.ret = w.ret, !.invoked = w.invoked,
                       !.failed = w.invoked /\ outcome = "raise",
                       !.raised = w.raised]
        /\ puts' = IF key \in Keys(cache) THEN <<>>
                   ELSE IF w.invoked /\ ~w.raised
                        THEN NextPuts(puts, key, PutsKept)
                        ELSE puts
        /\ UNCHANGED <<capacity, pending>>

Next ==
    \/ \E key \in KeyInputs : Get(key) /\ UNCHANGED <<run, origin>>
    \/ \E key \in KeyInputs, value \in ValueInputs :
          Put(key, value) /\ UNCHANGED <<run, origin>>
    \/ \E key \in KeyInputs : Contains(key) /\ UNCHANGED <<run, origin>>
    \/ Size /\ UNCHANGED <<run, origin>>
    \/ \E call \in CallInputs, outcome \in Outcomes :
          Call(call, outcome) /\ UNCHANGED <<run, origin>>
    \/ \E call \in CallInputs : AsyncCall(call) /\ UNCHANGED <<run, origin>>
    \/ \E call \in CallInputs : AsyncReturn(call) /\ UNCHANGED <<run, origin>>
    \/ \E call \in CallInputs : AsyncRaise(call) /\ UNCHANGED <<run, origin>>
    \/ \E call \in CallInputs : AsyncCancel(call) /\ UNCHANGED <<run, origin>>

Spec == Init /\ [][Next]_vars

TypeOK ==
    /\ capacity \in CapacityInputs
    /\ Cardinality(Keys(cache)) = Len(cache)
    /\ Total(pending, CallInputs) <= MaxTasks

(* ---- the module's shared store, its calls made one after another ---- *)
DemoInit ==
    /\ capacity = DemoCapacity
    /\ cache = <<>>
    /\ pending = [call \in CallInputs |-> 0]
    /\ last = NoEvent
    /\ puts = <<>>
    /\ run = NoRun
    /\ origin = <<>>

(* heavy_computation(x) *)
DemoSync(x) ==
    LET call == Positional(x)
    IN  /\ Call(call, "return")
        /\ run' = Follow(run, HeavyCall(x), last'.invoked)
        /\ origin' = Stored(origin, cache', MakeKey(call),
                            HeavyCall(x), last'.invoked)

(* await async_heavy_computation(x) *)
DemoAsync(x) ==
    LET call == Positional(x)
    IN  /\ Await(call, "return")
        /\ run' = Follow(run, AsyncHeavyCall(x), last'.invoked)
        /\ origin' = Stored(origin, cache', MakeKey(call),
                            AsyncHeavyCall(x), last'.invoked)

DemoNext ==
    \/ \E x \in DemoArgs : DemoSync(x)
    \/ \E x \in DemoArgs : DemoAsync(x)

SpecDemo == DemoInit /\ [][DemoNext]_vars

(* ---- calls with positional and keyword arguments on a small store ---- *)
KeyArgs == {<<1>>, <<1, 2>>, <<2, 1>>}

KeyItems == {<<"a", 1>>, <<"b", 1>>, <<"b", 2>>}

(* keyword arguments as written in a call: no name twice *)
KeyKwargs ==
    {s \in UNION {[1..n -> KeyItems] : n \in 0..2} :
        \A i, j \in DOMAIN s : i # j => s[i][1] # s[j][1]}

(* calls with a list as a positional or as a keyword argument value *)
UnhashableCalls ==
    {[args |-> <<AList>>, kwargs |-> <<>>],
     [args |-> <<1>>, kwargs |-> <<<<"a", AList>>>>],
     [args |-> <<>>, kwargs |-> <<<<"a", 1>>, <<"b", AList>>>>]}

KeyCallInputs ==
    {[args |-> a, kwargs |-> k] : a \in KeyArgs, k \in KeyKwargs}
        \cup UnhashableCalls

(* LRUCache(capacity=1) *)
KeyInit ==
    /\ capacity = 1
    /\ cache = <<>>
    /\ pending = [call \in CallInputs |-> 0]
    /\ last = NoEvent
    /\ puts = <<>>
    /\ run = NoRun
    /\ origin = <<>>

(* a call of cached(cache)(g), g a callable that takes any arguments and
   returns None *)
KeySync(call) ==
    /\ Call(call, "none")
    /\ origin' = Stored(origin, cache', MakeKey(call),
                        Made("cached", call), last'.invoked)
    /\ UNCHANGED run

(* an awaited call of async_cached(cache)(g), g as above *)
KeyAsync(call) ==
    /\ Await(call, "none")
    /\ origin' = Stored(origin, cache', MakeKey(call),
                        Made("async_cached", call), last'.invoked)
    /\ UNCHANGED run

KeyNext ==
    \/ \E call \in KeyCallInputs : KeySync(call)
    \/ \E call \in KeyCallInputs : KeyAsync(call)

SpecKey == KeyInit /\ [][KeyNext]_vars

(* ---- properties ---- *)
KeySeq(c) == [i \in DOMAIN c |-> c[i].key]

Others(c, key) == SelectSeq(c, LAMBDA e : e.key # key)

Mapping(c) == {<<c[i].key, c[i].value>> : i \in DOMAIN c}

(* the step ran LRUCache.put: directly, or as the store of a wrapper's miss *)
RanPut(e) ==
    \/ e.op \in {"put", "areturn"}
    \/ e.op = "call" /\ ~e.found /\ ~e.failed

(* the step ran LRUCache.get on a resident key: directly, or as the read of a
   wrapper's hit *)
RanGetHit(e) == e.op \in {"get", "call", "acall"} /\ e.found

(* C1: in a store of positive capacity, after every step (get, put, contains,
   size, a synchronous call, any step of an asynchronous call) the number of
   resident entries is between 0 and capacity. *)
C1_SizeWithinCapacity ==
    capacity > 0 => (len(cache).ret >= 0 /\ len(cache).ret <= capacity)

(* a put of a new key has just evicted from a full store *)
C1_Witness ==
    /\ capacity > 0
    /\ last.op = "put" /\ ~last.found /\ last.evicted # {}
    /\ Len(cache) = capacity

(* C2: a put of a new key into a store holding capacity entries removes
   exactly one entry, the least-recently-used one, and the new key stays;
   and after puts of capacity+1 distinct keys with no get in between, the
   store holds the last capacity of them and not the first. *)
C2_StepEvictsLRU ==
    (RanPut(last') /\ ~last'.found /\ Len(cache) = capacity) =>
        /\ last'.key \in Keys(cache')
        /\ Cardinality(last'.evicted) = 1
        /\ \E i \in DOMAIN cache : i = 1 /\ last'.evicted = {cache[i].key}

C2_AfterDistinctPuts ==
    (capacity >= 0 /\ Len(puts) = capacity + 1) =>
        /\ puts[1] \notin Keys(cache)
        /\ KeySeq(cache) = Tail(puts)

C2_EvictsLeastRecentlyUsed ==
    [][C2_StepEvictsLRU]_vars /\ []C2_AfterDistinctPuts

(* C3: after a get that hits, or a put on a resident key, that key is the
   last (most-recently-used) entry and the other entries keep their
   relative order. *)
C3_TouchedKeyIsMostRecent ==
    [][((RanGetHit(last') \/ (RanPut(last') /\ last'.found))) =>
          /\ cache' # <<>>
          /\ cache'[Len(cache')].key = last'.key
          /\ Others(cache', last'.key) = Others(cache, last'.key)]_vars

(* a get has hit a key of a store with two entries or more *)
C3_Witness ==
    /\ last.op = "get" /\ last.found
    /\ Len(cache) >= 2
    /\ cache[Len(cache)].key = last.key

(* C4 as stated: in every store, after a get that hits k and then a put of
   a new key, k is resident. *)
C4_AccessedKeySurvives ==
    (last.op = "put" /\ ~last.found /\ last.after # NoKey) =>
        last.after \in Keys(cache)

(* C4 as amended: in every store of capacity 2 or more, after a get that
   hits k and then a put of a new key, k is resident. *)
C4_AccessedKeySurvivesFromTwo ==
    capacity >= 2 => C4_AccessedKeySurvives

(* a get hit, then the put of a new key evicted, in a store of capacity 2+ *)
C4_Witness ==
    /\ capacity >= 2
    /\ last.op = "put" /\ ~last.found /\ last.after # NoKey
    /\ last.evicted # {}

(* C5: a put on a resident key evicts nothing: the resident keys are the
   same after it, and the other entries keep their values and order. *)
C5_OverwriteEvictsNothing ==
    [][(RanPut(last') /\ last'.found) =>
          /\ Keys(cache') = Keys(cache)
          /\ last'.evicted = {}
          /\ Others(cache', last'.key) = Others(cache, last'.key)]_vars

(* a put has overwritten a key of a full store of several entries *)
C5_Witness ==
    /\ last.op = "put" /\ last.found
    /\ capacity >= 2 /\ Len(cache) = capacity

(* C6: in any store, put(key, value) and then get(key) returns value. *)
C6_GetAfterPutReturnsValue ==
    [][(last.op = "put" /\ last'.op = "get" /\ last'.key = last.key) =>
          last'.ret = last.arg]_vars

(* C7: contains and size leave the store as it is (keys, values, order);
   get leaves the number of entries and every stored value as they are, and
   a get on an absent key leaves the store as it is. *)
C7_ProbesChangeNothing ==
    [][/\ last'.op \in {"contains", "size"} => cache' = cache
       /\ last'.op = "get" =>
             /\ Len(cache') = Len(cache)
             /\ Mapping(cache') = Mapping(cache)
             /\ (~last'.found => cache' = cache)]_vars

(* contains has found a key that is not the most-recently-used entry *)
C7_Witness ==
    /\ last.op = "contains" /\ last.found
    /\ Len(cache) >= 2
    /\ cache[Len(cache)].key # last.key

(* C8: no store with a capacity of zero or less is ever reachable. *)
C8_CapacityIsPositive == capacity > 0

(* C9: a synchronous memoized call whose key is resident returns the stored
   value without invoking the wrapped function; one whose key is not
   resident invokes it once and, when it returns, leaves the result stored
   under the key and returns it; the function is never invoked for a
   resident key; and the second of two back-to-back calls with the same
   arguments does not invoke it again. *)
C9_MemoizedCall ==
    [][/\ (last'.op = "call" /\ last'.found) =>
             /\ ~last'.invoked /\ ~last'.raised
             /\ last'.ret = getitem(cache, last'.key)
       /\ (last'.op = "call" /\ ~last'.found /\ ~last'.failed) =>
             /\ last'.invoked
             /\ last'.key \in Keys(cache')
             /\ Mapping(cache') \cap {<<last'.key, last'.ret>>} # {}
       /\ (last'.op = "call" /\ last'.invoked) => ~last'.found
       /\ (/\ last.op = "call" /\ ~last.found /\ ~last.failed
           /\ last'.op = "call" /\ last'.key = last.key) =>
             ~last'.invoked]_vars

(* C10: when the wrapped function fails in a memoized call, synchronous or
   asynchronous, the exception reaches the caller and the call leaves the
   store as it is, with no entry for the key; the next call with the same
   arguments invokes the wrapped function again. *)
C10_FailureIsNotCached ==
    [][/\ (last'.failed /\ last'.op \in {"call", "araise"}) =>
             /\ last'.raised
             /\ cache' = cache
       /\ (/\ last.failed /\ last.op \in {"call", "araise"} /\ ~last.found
           /\ last'.op \in {"call", "acall"} /\ last'.key = last.key) =>
             /\ ~last'.found
             /\ last'.invoked]_vars

(* the wrapped function has failed in a call on a store that holds entries *)
C10_Witness ==
    /\ last.op = "call" /\ last.failed /\ last.raised
    /\ cache # <<>>
    /\ last.key \notin Keys(cache)

(* C13: the asynchronous wrapper does not deduplicate: a call whose key is
   not resident invokes the wrapped function and suspends even while another
   call with the same key is suspended; every call that completes leaves its
   result stored under the key; and a completion that finds the key resident
   overwrites it without evicting any entry. *)
C13_NoInFlightDeduplication ==
    [][/\ (last'.op = "acall" /\ ~last'.found) =>
             /\ last'.invoked
             /\ Total(pending', CallInputs) = Total(pending, CallInputs) + 1
       /\ last'.op = "areturn" =>
             /\ last'.key \in Keys(cache')
             /\ Mapping(cache') \cap {<<last'.key, last'.ret>>} # {}
       /\ (last'.op = "areturn" /\ last'.found) =>
             /\ last'.evicted = {}
             /\ Keys(cache') = Keys(cache)
             /\ Others(cache', last'.key) = Others(cache, last'.key)]_vars

(* C14: a call of the asynchronous wrapper that is cancelled at its await
   stores nothing: the step leaves the store as it is and the cancellation
   reaches the caller. *)
C14_CancelledCallStoresNothing ==
    [][last'.op = "acancel" =>
          /\ cache' = cache
          /\ last'.evicted = {}
          /\ last'.raised]_vars

(* a call was cancelled while another one waits, its key not resident *)
C14_Witness ==
    /\ last.op = "acancel"
    /\ last.key \notin Keys(cache)
    /\ cache # <<>>
    /\ Total(pending, CallInputs) > 0

(* C15: what get returns for a resident key differs from what it returns
   for an absent key, also when the stored value is None. *)
C15_GetSignalsPresence ==
    (last.op = "get" /\ last.found) => last.ret # get(<<>>, last.key).ret

(* C17: an asynchronous call that finds its key resident returns the value
   stored for it in the same step, without invoking the wrapped function and
   without suspending, whatever other calls are suspended. *)
C17_HitReadsStoredValue ==
    [][(last'.op = "acall" /\ last'.found) =>
          /\ last'.ret = getitem(cache, last'.key)
          /\ ~last'.invoked
          /\ pending' = pending]_vars

(* an asynchronous call has hit a stored value while another call waits *)
C17_Witness ==
    /\ last.op = "acall" /\ last.found
    /\ last.ret # None
    /\ Total(pending, CallInputs) > 0

(* C20: after a synchronous memoized call whose wrapped function returned
   None, the next call with the same arguments, the entry being resident,
   returns None and does not invoke the wrapped function. *)
C20_NoneResultIsMemoized ==
    [][(/\ last.op = "call" /\ last.invoked /\ ~last.failed
        /\ last.ret = None
        /\ last'.op = "call" /\ last'.key = last.key /\ last'.found) =>
          /\ ~last'.invoked
          /\ ~last'.raised
          /\ last'.ret = None]_vars

(* a call has hit the None that the call right before it stored *)
C20_Witness ==
    /\ last.op = "call" /\ last.found
    /\ last.after = last.key
    /\ last.ret = None /\ ~last.invoked

(* the number of calls of a log that invoked the wrapped function *)
Invocations(log) == Cardinality({i \in DOMAIN log : log[i]})

(* the invocation counts the scenario gives after each of its calls *)
ScenarioCounts == <<1, 1, 2, 3, 4, 5>>

(* C12: on a store of capacity 3 used by the memoized f(x) = x * x alone,
   the calls f(5), f(5), f(6), f(7), f(8), f(5) leave the invocation count
   at 1, 1, 2, 3, 4, 5: the second f(5) is a hit that returns 25, f(8)
   evicts the entry of f(5), and the last f(5) is computed again. *)
C12_ScenarioCounts ==
    \A k \in DOMAIN ScenarioScript :
        (run.on /\ run.trace = SubSeq(ScenarioScript, 1, k)) =>
            /\ Invocations(run.log) = ScenarioCounts[k]
            /\ last.ret = ScenarioScript[k].call.args[1]
                            * ScenarioScript[k].call.args[1]
            /\ (k = 5 => last.evicted = {<<<<5>>, {}>>})
            /\ (k < 5 => last.evicted = {})

(* the whole scenario has run *)
C12_Witness ==
    /\ capacity = 3
    /\ run.on /\ run.trace = ScenarioScript
    /\ Invocations(run.log) = 5

(* C18: in the demo sequence on the shared store of capacity 3, the first
   call for each argument is computed, the second heavy_computation(10) and
   the second async_heavy_computation(5) are served from the store, and the
   last async_heavy_computation(5) is computed again. *)
C18_DemoSequence ==
    \A k \in DOMAIN DemoScript :
        (run.on /\ run.trace = SubSeq(DemoScript, 1, k)) =>
            run.log = SubSeq(<<TRUE, FALSE, TRUE, FALSE, TRUE, TRUE, TRUE>>,
                             1, k)

(* C19: on a store shared by the wrappers of several functions, a value
   that the wrapper of f returns from the store is a result of f: the entry
   it hits was not stored by the wrapper of another function. *)
C19_HitIsOwnResult ==
    /\ (last.op = "call" /\ last.found) =>
          origin[last.key].fn = "heavy_computation"
    /\ (last.op = "await" /\ last.found) =>
          origin[last.key].fn = "async_heavy_computation"

(* equal positional sequences, element by element, and equal keyword
   arguments as unordered collections of (name, value) pairs *)
SameSignature(a, b) ==
    /\ Len(a.args) = Len(b.args)
    /\ \A i \in DOMAIN a.args : a.args[i] = b.args[i]
    /\ \A i \in DOMAIN a.kwargs : \E j \in DOMAIN b.kwargs :
          a.kwargs[i] = b.kwargs[j]
    /\ \A j \in DOMAIN b.kwargs : \E i \in DOMAIN a.kwargs :
          a.kwargs[i] = b.kwargs[j]

(* C11: two calls derive the same key exactly when they have the same
   positional sequence and the same keyword arguments up to order; so a
   memoized call hits exactly when the call that stored a resident entry has
   the same signature: one that differs only in keyword order hits, one that
   differs in positional order misses. *)
C11_KeyIsTheSignature ==
    [][(last'.op \in {"call", "await"} /\ KeyHashable(last'.call)) =>
          /\ \A k \in DOMAIN origin :
                (MakeKey(origin[k].call) = MakeKey(last'.call))
                    <=> SameSignature(origin[k].call, last'.call)
          /\ last'.found <=>
                \E k \in DOMAIN origin :
                    SameSignature(origin[k].call, last'.call)]_vars

(* a call has hit the entry of a call written with the same keyword
   arguments in another order *)
C11_Witness ==
    /\ last.op = "call" /\ last.found
    /\ Len(last.call.kwargs) = 2
    /\ origin[last.key].call.kwargs # last.call.kwargs

(* C16: a memoized call, synchronous or asynchronous, with an unhashable
   positional or keyword argument value ends in an error that reaches the
   caller, does not invoke the wrapped function and leaves the store as it
   is. *)
C16_UnhashableArgumentFails ==
    [][(last'.op \in {"call", "await"} /\ ~KeyHashable(last'.call)) =>
          /\ last'.raised
          /\ ~last'.invoked
          /\ cache' = cache]_vars

(* a call with an unhashable keyword value has failed on a store that holds
   an entry *)
C16_Witness ==
    /\ last.op \in {"call", "await"} /\ last.raised /\ ~last.invoked
    /\ \E i \in DOMAIN last.call.kwargs : ~Hashable(last.call.kwargs[i][2])
    /\ cache # <<>>
====
